---- MODULE Spec2Model ----
(***************************************************************************)
(* Identity, session and authorization subsystem of the warehouse          *)
(* administration backend: the OIDC login / callback / logout routes, the  *)
(* express-session store, the user directory (DatabaseStorage and          *)
(* MemStorage), the isAuthenticated / requireRole middleware, and the      *)
(* mutating business routes with their audit trail.                        *)
(*                                                                         *)
(* A request is a process: it moves from one await of its handler to the   *)
(* next, and the steps of different requests interleave freely.  Every     *)
(* step is the effect of one I/O operation (a session-store read or write, *)
(* one SQL statement, one call to the identity provider) together with the *)
(* synchronous code that runs up to the next await.                        *)
(***************************************************************************)
EXTENDS Integers, Sequences, FiniteSets, TLC

VARIABLES
    impl,            \* which IStorage implementation backs `storage`
    users,           \* the users table / MemStorage.users: id -> row
    sessions,        \* the session store: sid -> session data
    oidcConfig,      \* the cached discovery result (TRUE once set)
    nextSid,         \* number of session ids generated so far
    logins,          \* number of verifier/state pairs generated so far
    loggedOut,       \* history: ids of the sessions a completed logout destroyed
    clock,           \* the value of new Date()
    reqs,            \* the requests in flight, one record per slot
    auditLogs,       \* the audit_logs table, in insertion order
    auditErrors,     \* the number of "Failed to create audit log" errors logged
    warehouses,      \* warehouses: id -> row
    inventoryItems,  \* inventory_items: id -> row
    productHistory,  \* product_history rows, in insertion order
    tables,          \* tables: id -> row
    capturedImages,  \* captured_images: id -> row
    nextId,          \* number of row ids generated so far
    mw,              \* the middleware harness: one request run through the chain
    reader           \* a caller of storage.getAuditLogs: its limit and its result

vars == <<impl, users, sessions, oidcConfig, nextSid, logins, loggedOut, clock, reqs,
          auditLogs, auditErrors, warehouses, inventoryItems, productHistory, tables,
          capturedImages, nextId, mw, reader>>

authVars == <<sessions, oidcConfig, nextSid, logins, loggedOut>>
auditVars == <<auditLogs, auditErrors>>
dataVars == <<warehouses, inventoryItems, productHistory, tables, capturedImages, nextId>>

-----------------------------------------------------------------------------
(* Bounds of the model *)

MaxSessions == 2
MaxLogins == 2
MaxAudit == 2
MaxRows == 2
MaxTrail == 3      \* entries in the audit log read by getAuditLogs
MaxLimit == 4      \* the limit passed to getAuditLogs

ReqIds == {1, 2}
Subjects == {"u1", "u2"}

-----------------------------------------------------------------------------
(* Values *)

NoUser == "none"
Null == "null"

userRoles == {"super_admin", "admin", "manager", "viewer"}

\* SessionData: userId, codeVerifier, state; 0 stands for an absent field.
EmptySession == [userId |-> NoUser, codeVerifier |-> 0, state |-> 0]

\* The verifier and the state of the k-th generated pair.
randomPKCECodeVerifier(k) == 2 * k - 1
randomState(k) == 2 * k

\* client.calculatePKCECodeChallenge(verifier): the S256 digest of the
\* verifier, a value of another kind that determines the verifier.
calculatePKCECodeChallenge(codeVerifier) == 100 + codeVerifier

\* No authorization URL.
NoRedirect == [state |-> 0, code_challenge |-> 0]

NoUserRow == [id |-> NoUser, email |-> Null, firstName |-> Null, lastName |-> Null,
              profileImageUrl |-> Null, role |-> "viewer", createdAt |-> 0, updatedAt |-> 0]

\* What the identity provider may return from its userinfo endpoint for a
\* subject: every profile claim present, or none of them.
FullInfo(s) ==
    [sub |-> s, email |-> "mail", given_name |-> "given", family_name |-> "family",
     picture |-> "pic"]
BareInfo(s) ==
    [sub |-> s, email |-> "", given_name |-> "", family_name |-> "", picture |-> ""]

NoUserInfo == [sub |-> NoUser, email |-> "", given_name |-> "", family_name |-> "",
               picture |-> ""]

\* (x as string) || null
OrNull(x) == IF x = "" THEN Null ELSE x

\* The UpsertUser value the callback builds from the userinfo response.
UpsertOf(info) ==
    [id |-> info.sub,
     email |-> OrNull(info.email),
     firstName |-> OrNull(info.given_name),
     lastName |-> OrNull(info.family_name),
     profileImageUrl |-> OrNull(info.picture)]

-----------------------------------------------------------------------------
(* Functions as tables *)

Put(f, k, v) == [x \in DOMAIN f \cup {k} |-> IF x = k THEN v ELSE f[x]]
Remove(f, k) == [x \in DOMAIN f \ {k} |-> f[x]]

-----------------------------------------------------------------------------
(* The user directory: DatabaseStorage (SQL statements) and MemStorage *)

getUserById(us, id) == IF id \in DOMAIN us THEN us[id] ELSE NoUserRow

\* Fault for C6: an upsert that writes the row as if the subject were new.
MemUpsertUserAsNew(us, user, now) ==
    Put(us, user.id,
        [id |-> user.id,
         email |-> user.email,
         firstName |-> user.firstName,
         lastName |-> user.lastName,
         profileImageUrl |-> user.profileImageUrl,
         role |-> "viewer",
         createdAt |-> now,
         updatedAt |-> now])

\* MemStorage.upsertUser: one synchronous body.
MemUpsertUser(us, user, now) ==
    LET existing == getUserById(us, user.id)
        found == existing.id # NoUser
    IN  Put(us, user.id,
            [id |-> user.id,
             email |-> user.email,
             firstName |-> user.firstName,
             lastName |-> user.lastName,
             profileImageUrl |-> user.profileImageUrl,
             role |-> IF found THEN existing.role ELSE "viewer",
             createdAt |-> IF found THEN existing.createdAt ELSE now,
             updatedAt |-> now])

\* DatabaseStorage.upsertUser, second statement when the SELECT found a row:
\* UPDATE users SET email, first_name, last_name, profile_image_url, updated_at
\* WHERE id = user.id.
DbUpdateUser(us, user, now) ==
    IF user.id \in DOMAIN us
    THEN [us EXCEPT ![user.id] =
             [@ EXCEPT !.email = user.email,
                       !.firstName = user.firstName,
                       !.lastName = user.lastName,
                       !.profileImageUrl = user.profileImageUrl,
                       !.updatedAt = now]]
    ELSE us

\* Fault for C20: an INSERT that leaves the role to the column default of a
\* schema whose default is manager.
DbInsertUserDefaultRole(us, user, now) ==
    Put(us, user.id,
        [id |-> user.id,
         email |-> user.email,
         firstName |-> user.firstName,
         lastName |-> user.lastName,
         profileImageUrl |-> user.profileImageUrl,
         role |-> "manager",
         createdAt |-> now,
         updatedAt |-> now])

\* DatabaseStorage.upsertUser, second statement when the SELECT found no row:
\* INSERT INTO users (id, email, ..., role) VALUES (..., 'viewer'); created_at
\* and updated_at take their column default, now().
DbInsertUser(us, user, now) ==
    Put(us, user.id,
        [id |-> user.id,
         email |-> user.email,
         firstName |-> user.firstName,
         lastName |-> user.lastName,
         profileImageUrl |-> user.profileImageUrl,
         role |-> "viewer",
         createdAt |-> now,
         updatedAt |-> now])

\* updateUserRole, both implementations: set role and updatedAt of the row.
\* The caller has checked that the row exists ("User not found" otherwise).
updateUserRole(us, userId, role, now) ==
    [us EXCEPT ![userId] = [@ EXCEPT !.role = role, !.updatedAt = now]]

-----------------------------------------------------------------------------
(* Authorization middleware.  An outcome of 0 is a call of next(). *)

\* Fault for C9: isAuthenticated without the check of getUserById's result.
isAuthenticatedUnchecked(session, us) ==
    IF session.userId = NoUser
    THEN [status |-> 401, user |-> NoUserRow]
    ELSE [status |-> 0, user |-> getUserById(us, session.userId)]

\* Fault for C28: an isAuthenticated that takes the role from a copy made
\* when the session was created (u2, whose sessions all date from the time
\* it was admin) instead of from the row it reads.
isAuthenticatedRoleAtLogin(session, us) ==
    IF session.userId = NoUser
    THEN [status |-> 401, user |-> NoUserRow]
    ELSE LET user == getUserById(us, session.userId)
         IN  IF user.id = NoUser
             THEN [status |-> 401, user |-> NoUserRow]
             ELSE [status |-> 0,
                   user |-> IF user.id = "u2" THEN [user EXCEPT !.role = "admin"] ELSE user]

\* isAuthenticated, given the request's session and the users table that its
\* getUserById reads.
isAuthenticated(session, us) ==
    IF session.userId = NoUser
    THEN [status |-> 401, user |-> NoUserRow]
    ELSE LET user == getUserById(us, session.userId)
         IN  IF user.id = NoUser
             THEN [status |-> 401, user |-> NoUserRow]
             ELSE [status |-> 0, user |-> user]

\* Fault for C8: a requireRole that admits every role above an allowed one.
requireRoleOrHigher(allowedRoles, user) ==
    LET rank == [ro \in userRoles |->
                    CASE ro = "super_admin" -> 4 [] ro = "admin" -> 3
                      [] ro = "manager" -> 2 [] OTHER -> 1]
    IN  IF user.id = NoUser THEN 401
        ELSE IF \A a \in allowedRoles : rank[a] > rank[user.role] THEN 403
        ELSE 0

\* requireRole(...allowedRoles), given req.user.
requireRole(allowedRoles, user) ==
    IF user.id = NoUser THEN 401
    ELSE IF user.role \notin allowedRoles THEN 403
    ELSE 0

-----------------------------------------------------------------------------
(* Requests *)

\* One request slot.  session is req.session, loaded is the session as the
\* session middleware read it (what its hash is compared with when the
\* response ends), config is the handler's `config` (TRUE once getOIDCConfig
\* has returned), user is req.user.  afterLogout is history: the request
\* arrived with the cookie of a session whose logout had completed.  target,
\* role, id, warehouse, name and qty are the path parameter and the body (a
\* name of "-" or a qty of -1: the body has none); current is the quantity
\* PATCH /api/inventory/:id read before its update; redirect is what the
\* authorization URL of a login's redirect carries.
IdleReq ==
    [route |-> "none", pc |-> "idle", sid |-> 0, afterLogout |-> FALSE,
     session |-> EmptySession, loaded |-> EmptySession, config |-> FALSE,
     query |-> 0, info |-> NoUserInfo, existing |-> FALSE,
     user |-> NoUserRow, roleChecked |-> FALSE,
     target |-> NoUser, role |-> "none", id |-> 0, warehouse |-> 0, name |-> "-",
     qty |-> -1, current |-> 0, redirect |-> NoRedirect, status |-> 0]

InFlight(r) == reqs[r].pc \notin {"idle", "done"}

\* Slots are interchangeable: a request takes the lowest free one.
CanStart(r) ==
    /\ reqs[r].pc = "idle"
    /\ \A o \in ReqIds : o < r => reqs[o].pc # "idle"

\* The session middleware on an incoming request: the session named by the
\* cookie if the store holds it, a new empty session otherwise.  A new
\* session gets a new id (newSid); it reaches the store only if the request
\* modifies it (saveUninitialized: false).
LoadSession(q, cookie, newSid) ==
    IF cookie \in DOMAIN sessions
    THEN [q EXCEPT !.sid = cookie, !.session = sessions[cookie], !.loaded = sessions[cookie],
                   !.afterLogout = (cookie \in loggedOut)]
    ELSE [q EXCEPT !.sid = newSid, !.session = EmptySession, !.loaded = EmptySession,
                   !.afterLogout = (cookie \in loggedOut)]

\* The end of a response: the session middleware writes the session back
\* first if it differs from what was loaded (resave: false), and the
\* response leaves once that write is done.
Respond(q, status) ==
    IF q.session # q.loaded
    THEN [q EXCEPT !.pc = "save", !.status = status]
    ELSE [q EXCEPT !.pc = "done", !.status = status]

\* store.set(sid, session): insert or overwrite the row of the session.
SaveSession(r) ==
    /\ reqs[r].pc = "save"
    /\ sessions' = Put(sessions, reqs[r].sid, reqs[r].session)
    /\ reqs' = [reqs EXCEPT ![r].pc = "done"]
    /\ UNCHANGED <<impl, users, oidcConfig, nextSid, logins, loggedOut, clock, auditVars,
                   dataVars, mw, reader>>

\* The response has been delivered; the slot is free again.
Finish(r) ==
    /\ reqs[r].pc = "done"
    /\ reqs' = [reqs EXCEPT ![r] = IdleReq]
    /\ UNCHANGED <<impl, users, authVars, clock, auditVars, dataVars, mw, reader>>


-----------------------------------------------------------------------------
(* GET /api/login *)

\* client.buildAuthorizationUrl(config, {code_challenge, state, ...}).
buildAuthorizationUrl(codeChallenge, state) ==
    [state |-> state, code_challenge |-> codeChallenge]

\* Fault for C17: a login that keeps the pending record its session already
\* holds.
LoginContinueKeepingPending(q, k) ==
    LET keep == q.session.codeVerifier # 0
        codeVerifier == IF keep THEN q.session.codeVerifier ELSE randomPKCECodeVerifier(k)
        state == IF keep THEN q.session.state ELSE randomState(k)
    IN  Respond([q EXCEPT !.config = TRUE,
                          !.session.codeVerifier = codeVerifier,
                          !.session.state = state,
                          !.redirect = buildAuthorizationUrl(
                                           calculatePKCECodeChallenge(codeVerifier), state)],
                302)

\* The handler after getOIDCConfig has returned: a new verifier and state
\* (the k-th drawn by the process) are stored in the session and the
\* redirect to the authorization URL is sent.
LoginContinue(q, k) ==
    LET codeVerifier == randomPKCECodeVerifier(k)
        state == randomState(k)
    IN  Respond([q EXCEPT !.config = TRUE,
                          !.session.codeVerifier = codeVerifier,
                          !.session.state = state,
                          !.redirect = buildAuthorizationUrl(
                                           calculatePKCECodeChallenge(codeVerifier), state)],
                302)

\* Logins that have not yet drawn their verifier/state pair.
WaitingLogins == {r \in ReqIds : reqs[r].route = "login" /\ reqs[r].pc = "discovery"}

Login(r, cookie) ==
    /\ CanStart(r)
    /\ logins + Cardinality(WaitingLogins) < MaxLogins
    /\ cookie \in DOMAIN sessions \/ nextSid < MaxSessions
    /\ LET fresh == cookie \notin DOMAIN sessions
           q == LoadSession([IdleReq EXCEPT !.route = "login"], cookie, nextSid + 1)
       IN  /\ nextSid' = IF fresh THEN nextSid + 1 ELSE nextSid
           /\ IF oidcConfig
              THEN /\ reqs' = [reqs EXCEPT ![r] = LoginContinue(q, logins + 1)]
                   /\ logins' = logins + 1
              ELSE /\ reqs' = [reqs EXCEPT ![r] = [q EXCEPT !.pc = "discovery"]]
                   /\ logins' = logins
    /\ UNCHANGED <<impl, users, sessions, oidcConfig, loggedOut, clock, auditVars, dataVars, mw, reader>>

-----------------------------------------------------------------------------
(* GET /api/auth/callback *)

\* The handler after getOIDCConfig has returned.
CallbackContinue(q) ==
    IF q.session.codeVerifier = 0 \/ q.session.state = 0
    THEN Respond([q EXCEPT !.config = TRUE], 400)
    ELSE [q EXCEPT !.config = TRUE, !.pc = "grant"]

Callback(r, cookie, state) ==
    /\ CanStart(r)
    /\ LET q == LoadSession([IdleReq EXCEPT !.route = "callback", !.query = state], cookie, 0)
       IN  reqs' = [reqs EXCEPT ![r] =
                       IF oidcConfig THEN CallbackContinue(q)
                       ELSE [q EXCEPT !.pc = "discovery"]]
    /\ UNCHANGED <<impl, users, authVars, clock, auditVars, dataVars, mw, reader>>

\* Fault for C24: a getOIDCConfig that caches the outcome of a failed
\* discovery, so that later requests no longer try.
DiscoveryCachingFailure(r, ok) ==
    /\ reqs[r].pc = "discovery"
    /\ oidcConfig' = TRUE
    /\ IF ok
       THEN IF reqs[r].route = "login"
            THEN /\ reqs' = [reqs EXCEPT ![r] = LoginContinue(reqs[r], logins + 1)]
                 /\ logins' = logins + 1
            ELSE /\ reqs' = [reqs EXCEPT ![r] = CallbackContinue(reqs[r])]
                 /\ logins' = logins
       ELSE /\ reqs' = [reqs EXCEPT ![r] = Respond(reqs[r], 500)]
            /\ logins' = logins
    /\ UNCHANGED <<impl, users, sessions, nextSid, loggedOut, clock, auditVars, dataVars,
                   mw, reader>>

\* getOIDCConfig's await of client.discovery ends: the result is cached and
\* the handler goes on, or discovery threw and the handler's catch answers.
Discovery(r, ok) ==
    /\ reqs[r].pc = "discovery"
    /\ IF ok
       THEN /\ oidcConfig' = TRUE
            /\ IF reqs[r].route = "login"
               THEN /\ reqs' = [reqs EXCEPT ![r] = LoginContinue(reqs[r], logins + 1)]
                    /\ logins' = logins + 1
               ELSE /\ reqs' = [reqs EXCEPT ![r] = CallbackContinue(reqs[r])]
                    /\ logins' = logins
       ELSE /\ reqs' = [reqs EXCEPT ![r] = Respond(reqs[r], 500)]
            /\ UNCHANGED <<oidcConfig, logins>>
    /\ UNCHANGED <<impl, users, sessions, nextSid, loggedOut, clock, auditVars, dataVars, mw, reader>>

\* Fault for C1: a grant that does not compare the state parameter.
authorizationCodeGrantAnyState(query, expectedState, accepted) ==
    IF ~accepted THEN "rejected" ELSE "tokens"

\* client.authorizationCodeGrant(config, callbackUrl, {pkceCodeVerifier,
\* expectedState}): the state parameter of the callback URL is compared with
\* expectedState, then the identity provider accepts or rejects the code and
\* the verifier.
authorizationCodeGrant(query, expectedState, accepted) ==
    IF query # expectedState THEN "state_mismatch"
    ELSE IF ~accepted THEN "rejected"
    ELSE "tokens"

\* Fault for C27: a callback that deletes the pending-login record before
\* it answers a failed code exchange.
AuthorizationCodeGrantConsuming(r, accepted) ==
    /\ reqs[r].pc = "grant"
    /\ reqs' = [reqs EXCEPT ![r] =
           IF authorizationCodeGrant(@.query, @.session.state, accepted) = "tokens"
           THEN [@ EXCEPT !.pc = "userinfo"]
           ELSE Respond([@ EXCEPT !.session.codeVerifier = 0, !.session.state = 0], 500)]
    /\ UNCHANGED <<impl, users, authVars, clock, auditVars, dataVars, mw, reader>>

AuthorizationCodeGrant(r, accepted) ==
    /\ reqs[r].pc = "grant"
    /\ reqs' = [reqs EXCEPT ![r] =
           IF authorizationCodeGrant(@.query, @.session.state, accepted) = "tokens"
           THEN [@ EXCEPT !.pc = "userinfo"]
           ELSE Respond(@, 500)]
    /\ UNCHANGED <<impl, users, authVars, clock, auditVars, dataVars, mw, reader>>

\* client.fetchUserInfo returns the claims of the subject the code was
\* issued for, or throws (also when its subject check, which is handed
\* tokens.token_type, rejects the response).
FetchUserInfo(r, ok, info) ==
    /\ reqs[r].pc = "userinfo"
    /\ reqs' = [reqs EXCEPT ![r] =
           IF ok THEN [@ EXCEPT !.pc = "upsert", !.info = info]
           ELSE Respond(@, 500)]
    /\ UNCHANGED <<impl, users, authVars, clock, auditVars, dataVars, mw, reader>>

\* The handler after upsertUser has returned the row: userId is set, the
\* pending-login fields are deleted and the redirect is sent.
CallbackComplete(q) ==
    Respond([q EXCEPT !.session.userId = q.info.sub,
                      !.session.codeVerifier = 0,
                      !.session.state = 0], 302)

\* storage.upsertUser with MemStorage.
UpsertUserMem(r) ==
    /\ reqs[r].pc = "upsert"
    /\ impl = "mem"
    /\ users' = MemUpsertUser(users, UpsertOf(reqs[r].info), clock)
    /\ reqs' = [reqs EXCEPT ![r] = CallbackComplete(@)]
    /\ UNCHANGED <<impl, authVars, clock, auditVars, dataVars, mw, reader>>

\* storage.upsertUser with DatabaseStorage, first statement: SELECT ... WHERE
\* id = user.id LIMIT 1.
UpsertUserSelect(r) ==
    /\ reqs[r].pc = "upsert"
    /\ impl = "db"
    /\ reqs' = [reqs EXCEPT ![r] =
           [@ EXCEPT !.pc = "upsertWrite",
                     !.existing = (reqs[r].info.sub \in DOMAIN users)]]
    /\ UNCHANGED <<impl, users, authVars, clock, auditVars, dataVars, mw, reader>>

\* storage.upsertUser with DatabaseStorage, second statement: the UPDATE, or
\* the INSERT, which violates the primary key of users if a row with the id
\* has appeared since the SELECT; the handler's catch then answers 500.
UpsertUserWrite(r) ==
    /\ reqs[r].pc = "upsertWrite"
    /\ LET user == UpsertOf(reqs[r].info)
       IN  IF reqs[r].existing
           THEN /\ users' = DbUpdateUser(users, user, clock)
                /\ reqs' = [reqs EXCEPT ![r] = CallbackComplete(@)]
           ELSE IF user.id \in DOMAIN users
           THEN /\ users' = users
                /\ reqs' = [reqs EXCEPT ![r] = Respond(@, 500)]
           ELSE /\ users' = DbInsertUser(users, user, clock)
                /\ reqs' = [reqs EXCEPT ![r] = CallbackComplete(@)]
    /\ UNCHANGED <<impl, authVars, clock, auditVars, dataVars, mw, reader>>

-----------------------------------------------------------------------------
(* GET /api/logout *)

Logout(r, cookie) ==
    /\ CanStart(r)
    /\ reqs' = [reqs EXCEPT ![r] =
           [LoadSession([IdleReq EXCEPT !.route = "logout"], cookie, 0) EXCEPT !.pc = "destroy"]]
    /\ UNCHANGED <<impl, users, authVars, clock, auditVars, dataVars, mw, reader>>

\* req.session.destroy: store.destroy(sid) deletes the row, req.session is
\* removed (nothing is written back when the response ends) and the callback
\* sends the redirect.
DestroySession(r) ==
    /\ reqs[r].pc = "destroy"
    /\ sessions' = Remove(sessions, reqs[r].sid)
    /\ loggedOut' = IF reqs[r].sid = 0 THEN loggedOut ELSE loggedOut \cup {reqs[r].sid}
    /\ reqs' = [reqs EXCEPT ![r] =
           [@ EXCEPT !.pc = "done", !.status = 302,
                     !.session = EmptySession, !.loaded = EmptySession]]
    /\ UNCHANGED <<impl, users, oidcConfig, nextSid, logins, clock, auditVars, dataVars, mw, reader>>

-----------------------------------------------------------------------------
(* Routes behind isAuthenticated *)

\* Fault for C11: every guarded route admits managers.
allowedRolesWithManager(route) == {"super_admin", "admin", "manager"}

\* The allow-set of the route's requireRole middleware.
allowedRoles(route) ==
    CASE route \in {"createWarehouse", "updateWarehouse", "createInventory", "updateInventory"}
            -> {"super_admin", "admin", "manager"}
      [] route \in {"deleteWarehouse", "deleteInventory", "updateUserRole"}
            -> {"super_admin", "admin"}
      [] OTHER -> {}

\* The routes registered with a requireRole middleware.
hasRequireRole(route) ==
    route \in {"createWarehouse", "updateWarehouse", "deleteWarehouse",
               "createInventory", "updateInventory", "deleteInventory",
               "updateUserRole"}

\* The routes whose handler writes business data and calls auditLog.
MutatingRoutes ==
    {"createWarehouse", "updateWarehouse", "deleteWarehouse",
     "createInventory", "updateInventory", "deleteInventory",
     "createTable", "deleteTable", "uploadImage", "updateUserRole"}

\* The routes whose handler inserts a row with a new id.
CreatingRoutes == {"createWarehouse", "createInventory", "createTable", "uploadImage"}

\* The status the catch of the route's handler answers with.
ErrorStatus(route) ==
    IF route \in {"deleteWarehouse", "deleteInventory", "deleteTable", "uploadImage"}
    THEN 500 ELSE 400

\* The status of the route's success response.
SuccessStatus(route) ==
    CASE route \in {"createWarehouse", "createInventory", "createTable"} -> 201
      [] route \in {"deleteWarehouse", "deleteInventory", "deleteTable"} -> 204
      [] OTHER -> 200

\* Mutating requests that may still append to the audit log, and creating
\* requests that may still draw a row id.
PendingAudits == {r \in ReqIds : InFlight(r) /\ reqs[r].route \in MutatingRoutes}
PendingCreates == {r \in ReqIds : InFlight(r) /\ reqs[r].route \in CreatingRoutes}

CanStartRoute(r, route) ==
    /\ CanStart(r)
    /\ route \in MutatingRoutes => Len(auditLogs) + auditErrors + Cardinality(PendingAudits) < MaxAudit
    /\ route \in CreatingRoutes => nextId + Cardinality(PendingCreates) < MaxRows

\* Fault for C25: a guard that lets every role admitted to the route assign
\* super_admin.
PatchUserRoleGuardAdmins(body, actor) ==
    IF body \notin userRoles THEN 400
    ELSE IF body = "super_admin" /\ actor.role \notin {"super_admin", "admin"} THEN 403
    ELSE 0

\* Fault for C5: the handler without its super_admin guard.
PatchUserRoleGuardOpen(body, actor) ==
    IF body \notin userRoles THEN 400 ELSE 0

\* PATCH /api/users/:id/role up to its call of storage.updateUserRole: the
\* body is parsed with updateUserRoleSchema (a throw is answered 400 by the
\* catch), then only a super_admin may assign super_admin.
PatchUserRoleGuard(body, actor) ==
    IF body \notin userRoles THEN 400
    ELSE IF body = "super_admin" /\ actor.role # "super_admin" THEN 403
    ELSE 0

\* The handler of the route up to its first await.  A body whose name is
\* empty fails the insert schema (name: min(1)); a partial schema accepts a
\* body without a name ("-").
Handler(q) ==
    CASE q.route = "authUser" -> Respond(q, 200)
      [] q.route = "updateUserRole" ->
            IF PatchUserRoleGuard(q.role, q.user) # 0
            THEN Respond(q, PatchUserRoleGuard(q.role, q.user))
            ELSE [q EXCEPT !.pc = "mutate"]
      [] q.route \in {"createWarehouse", "createInventory", "createTable"} ->
            IF q.name \in {"", "-"} THEN Respond(q, 400) ELSE [q EXCEPT !.pc = "mutate"]
      [] q.route = "updateWarehouse" ->
            IF q.name = "" THEN Respond(q, 400) ELSE [q EXCEPT !.pc = "mutate"]
      [] q.route = "updateInventory" -> [q EXCEPT !.pc = "read"]
      [] q.route = "uploadImage" ->
            IF q.name = "" THEN Respond(q, 400) ELSE [q EXCEPT !.pc = "vision"]
      [] OTHER -> [q EXCEPT !.pc = "mutate"]

\* A request for a route behind isAuthenticated arrives: the session
\* middleware loads the session.
Request(r, cookie, in) ==
    /\ CanStartRoute(r, in.route)
    /\ reqs' = [reqs EXCEPT ![r] =
           [LoadSession([IdleReq EXCEPT !.route = in.route, !.target = in.target,
                                        !.role = in.role, !.id = in.id,
                                        !.warehouse = in.warehouse, !.name = in.name,
                                        !.qty = in.qty],
                        cookie, 0)
              EXCEPT !.pc = "authenticate"]]
    /\ UNCHANGED <<impl, users, authVars, clock, auditVars, dataVars, mw, reader>>

\* The middleware chain of the route: isAuthenticated (its getUserById reads
\* the users table now), then requireRole where the route registers one,
\* then the handler up to its first await.
Authenticate(r) ==
    /\ reqs[r].pc = "authenticate"
    /\ LET q == reqs[r]
           auth == isAuthenticated(q.session, users)
           withUser == [q EXCEPT !.user = auth.user]
           role == requireRole(allowedRoles(q.route), auth.user)
       IN  reqs' = [reqs EXCEPT ![r] =
               IF auth.status # 0 THEN Respond(q, auth.status)
               ELSE IF hasRequireRole(q.route)
               THEN IF role # 0 THEN Respond(withUser, role)
                    ELSE Handler([withUser EXCEPT !.roleChecked = TRUE])
               ELSE Handler(withUser)]
    /\ UNCHANGED <<impl, users, authVars, clock, auditVars, dataVars, mw, reader>>

-----------------------------------------------------------------------------
(* Audit trail *)

\* The action name the route passes to auditLog.
AuditAction(route) ==
    CASE route = "createWarehouse" -> "CREATE_WAREHOUSE"
      [] route = "updateWarehouse" -> "UPDATE_WAREHOUSE"
      [] route = "deleteWarehouse" -> "DELETE_WAREHOUSE"
      [] route = "createInventory" -> "CREATE_INVENTORY"
      [] route = "updateInventory" -> "UPDATE_INVENTORY"
      [] route = "deleteInventory" -> "DELETE_INVENTORY"
      [] route = "createTable" -> "CREATE_TABLE"
      [] route = "deleteTable" -> "DELETE_TABLE"
      [] route = "uploadImage" -> "UPLOAD_IMAGE"
      [] OTHER -> "UPDATE_USER_ROLE"

\* Fault for C13: an entry whose metadata names the warehouse of the body
\* where the route passes the id of the row it wrote.
AuditEntryOfBody(q, now) ==
    [userId |-> q.user.id, action |-> AuditAction(q.route), id |-> q.warehouse,
     user |-> q.target, role |-> q.role, timestamp |-> now]

\* The entry auditLog builds for the request: the acting user, the action
\* and the metadata (the row id, or the target user and the new role).
AuditEntry(q, now) ==
    [userId |-> q.user.id, action |-> AuditAction(q.route), id |-> q.id,
     user |-> q.target, role |-> q.role, timestamp |-> now]

\* Fault for C12: an auditLog without its try/catch, so that a failed append
\* reaches the catch of the handler.
AuditLogRethrowing(r, ok) ==
    /\ reqs[r].pc = "audit"
    /\ auditLogs' = IF ok THEN Append(auditLogs, AuditEntry(reqs[r], clock)) ELSE auditLogs
    /\ auditErrors' = IF ok THEN auditErrors ELSE auditErrors + 1
    /\ reqs' = [reqs EXCEPT ![r] =
           Respond(@, IF ok THEN SuccessStatus(@.route) ELSE ErrorStatus(@.route))]
    /\ UNCHANGED <<impl, users, authVars, clock, dataVars, mw, reader>>

\* Fault for C23: a log keyed by the time of the entry (MemStorage names an
\* entry log_<Date.now()>), where an entry replaces the one of the same time.
AuditLogKeyedByTime(r, ok) ==
    /\ reqs[r].pc = "audit"
    /\ auditLogs' = IF ok
                    THEN Append(SelectSeq(auditLogs, LAMBDA e : e.timestamp # clock),
                                AuditEntry(reqs[r], clock))
                    ELSE auditLogs
    /\ auditErrors' = IF ok THEN auditErrors ELSE auditErrors + 1
    /\ reqs' = [reqs EXCEPT ![r] = Respond(@, SuccessStatus(@.route))]
    /\ UNCHANGED <<impl, users, authVars, clock, dataVars, mw, reader>>

\* auditLog(...): storage.createAuditLog appends the entry, or throws and the
\* error is logged and dropped; either way the handler goes on to send its
\* success response.
AuditLog(r, ok) ==
    /\ reqs[r].pc = "audit"
    /\ auditLogs' = IF ok THEN Append(auditLogs, AuditEntry(reqs[r], clock)) ELSE auditLogs
    /\ auditErrors' = IF ok THEN auditErrors ELSE auditErrors + 1
    /\ reqs' = [reqs EXCEPT ![r] = Respond(@, SuccessStatus(@.route))]
    /\ UNCHANGED <<impl, users, authVars, clock, dataVars, mw, reader>>

-----------------------------------------------------------------------------
(* PATCH /api/users/:id/role *)

\* storage.updateUserRole: the row is updated, or there is none and the
\* "User not found" error is answered 400 by the handler's catch.
UpdateUserRole(r) ==
    /\ reqs[r].pc = "mutate"
    /\ reqs[r].route = "updateUserRole"
    /\ IF reqs[r].target \in DOMAIN users
       THEN /\ users' = updateUserRole(users, reqs[r].target, reqs[r].role, clock)
            /\ reqs' = [reqs EXCEPT ![r].pc = "audit"]
       ELSE /\ users' = users
            /\ reqs' = [reqs EXCEPT ![r] = Respond(@, ErrorStatus(@.route))]
    /\ UNCHANGED <<impl, authVars, clock, auditVars, dataVars, mw, reader>>

-----------------------------------------------------------------------------
(* Warehouses *)

\* POST /api/warehouses: storage.createWarehouse inserts the row.
CreateWarehouse(r) ==
    /\ reqs[r].pc = "mutate"
    /\ reqs[r].route = "createWarehouse"
    /\ nextId' = nextId + 1
    /\ warehouses' = Put(warehouses, nextId + 1, [name |-> reqs[r].name, updatedAt |-> clock])
    /\ reqs' = [reqs EXCEPT ![r] = [@ EXCEPT !.pc = "audit", !.id = nextId + 1]]
    /\ UNCHANGED <<impl, users, authVars, clock, auditVars, inventoryItems, productHistory,
                   tables, capturedImages, mw, reader>>

\* Fault for C14: a handler that records the audit entry although
\* storage.updateWarehouse threw.
UpdateWarehouseAuditingFailure(r) ==
    /\ reqs[r].pc = "mutate"
    /\ reqs[r].route = "updateWarehouse"
    /\ warehouses' = IF reqs[r].id \in DOMAIN warehouses
                     THEN [warehouses EXCEPT ![reqs[r].id] =
                              [name |-> IF reqs[r].name = "-" THEN @.name ELSE reqs[r].name,
                               updatedAt |-> clock]]
                     ELSE warehouses
    /\ reqs' = [reqs EXCEPT ![r].pc = "audit"]
    /\ UNCHANGED <<impl, users, authVars, clock, auditVars, inventoryItems, productHistory,
                   tables, capturedImages, nextId, mw, reader>>

\* PATCH /api/warehouses/:id: storage.updateWarehouse updates the row, or
\* throws "Warehouse not found".
UpdateWarehouse(r) ==
    /\ reqs[r].pc = "mutate"
    /\ reqs[r].route = "updateWarehouse"
    /\ IF reqs[r].id \in DOMAIN warehouses
       THEN /\ warehouses' = [warehouses EXCEPT ![reqs[r].id] =
                   [name |-> IF reqs[r].name = "-" THEN @.name ELSE reqs[r].name,
                    updatedAt |-> clock]]
            /\ reqs' = [reqs EXCEPT ![r].pc = "audit"]
       ELSE /\ warehouses' = warehouses
            /\ reqs' = [reqs EXCEPT ![r] = Respond(@, ErrorStatus(@.route))]
    /\ UNCHANGED <<impl, users, authVars, clock, auditVars, inventoryItems, productHistory,
                   tables, capturedImages, nextId, mw, reader>>

\* The rows left in inventory_items and product_history once the items in
\* `gone` are deleted (ON DELETE CASCADE).
ItemsWithout(gone) == [i \in DOMAIN inventoryItems \ gone |-> inventoryItems[i]]
HistoryWithout(gone) == SelectSeq(productHistory, LAMBDA h : h.inventoryItemId \notin gone)

\* DELETE /api/warehouses/:id: storage.deleteWarehouse deletes the row (and,
\* by cascade, its items and their history) if there is one.
DeleteWarehouse(r) ==
    /\ reqs[r].pc = "mutate"
    /\ reqs[r].route = "deleteWarehouse"
    /\ LET gone == {i \in DOMAIN inventoryItems : inventoryItems[i].warehouseId = reqs[r].id}
       IN  /\ warehouses' = Remove(warehouses, reqs[r].id)
           /\ inventoryItems' = ItemsWithout(gone)
           /\ productHistory' = HistoryWithout(gone)
    /\ reqs' = [reqs EXCEPT ![r].pc = "audit"]
    /\ UNCHANGED <<impl, users, authVars, clock, auditVars, tables, capturedImages, nextId, mw, reader>>

-----------------------------------------------------------------------------
(* Inventory *)

HistoryEntry(item, actionType, previous, new, userId) ==
    [inventoryItemId |-> item, actionType |-> actionType, quantityChange |-> new - previous,
     previousQuantity |-> previous, newQuantity |-> new, userId |-> userId]

\* POST /api/inventory: storage.createInventoryItem inserts the row; the
\* insert fails on the foreign key if the warehouse does not exist.
CreateInventoryItem(r) ==
    /\ reqs[r].pc = "mutate"
    /\ reqs[r].route = "createInventory"
    /\ IF reqs[r].warehouse \in DOMAIN warehouses
       THEN /\ nextId' = nextId + 1
            /\ inventoryItems' = Put(inventoryItems, nextId + 1,
                   [warehouseId |-> reqs[r].warehouse, name |-> reqs[r].name,
                    quantity |-> IF reqs[r].qty < 0 THEN 0 ELSE reqs[r].qty,
                    updatedAt |-> clock])
            /\ reqs' = [reqs EXCEPT ![r] =
                   [@ EXCEPT !.pc = "history", !.id = nextId + 1, !.current = 0,
                             !.qty = IF @ < 0 THEN 0 ELSE @]]
       ELSE /\ UNCHANGED <<nextId, inventoryItems>>
            /\ reqs' = [reqs EXCEPT ![r] = Respond(@, ErrorStatus(@.route))]
    /\ UNCHANGED <<impl, users, authVars, clock, auditVars, warehouses, productHistory,
                   tables, capturedImages, mw, reader>>

\* PATCH /api/inventory/:id: storage.getInventoryItemById, then the body is
\* parsed with the partial insert schema.
GetInventoryItem(r) ==
    /\ reqs[r].pc = "read"
    /\ reqs' = [reqs EXCEPT ![r] =
           IF reqs[r].id \notin DOMAIN inventoryItems THEN Respond(@, 404)
           ELSE IF reqs[r].name = "" THEN Respond(@, 400)
           ELSE [@ EXCEPT !.pc = "mutate", !.current = inventoryItems[reqs[r].id].quantity]]
    /\ UNCHANGED <<impl, users, authVars, clock, auditVars, dataVars, mw, reader>>

\* PATCH /api/inventory/:id: storage.updateInventoryItem updates the row, or
\* throws "Inventory item not found"; a history entry follows if the body
\* has a quantity other than the one read before.
UpdateInventoryItem(r) ==
    /\ reqs[r].pc = "mutate"
    /\ reqs[r].route = "updateInventory"
    /\ IF reqs[r].id \in DOMAIN inventoryItems
       THEN /\ inventoryItems' = [inventoryItems EXCEPT ![reqs[r].id] =
                   [@ EXCEPT !.name = IF reqs[r].name = "-" THEN @ ELSE reqs[r].name,
                             !.quantity = IF reqs[r].qty < 0 THEN @ ELSE reqs[r].qty,
                             !.updatedAt = clock]]
            /\ reqs' = [reqs EXCEPT ![r].pc =
                   IF reqs[r].qty >= 0 /\ reqs[r].qty # reqs[r].current
                   THEN "history" ELSE "audit"]
       ELSE /\ inventoryItems' = inventoryItems
            /\ reqs' = [reqs EXCEPT ![r] = Respond(@, ErrorStatus(@.route))]
    /\ UNCHANGED <<impl, users, authVars, clock, auditVars, warehouses, productHistory,
                   tables, capturedImages, nextId, mw, reader>>

\* storage.createProductHistory inserts the entry as a statement of its own,
\* after the statement that wrote the item was committed.  The insert is
\* rejected on the foreign key if the item is gone, and like any statement it
\* may be rejected by the database (ok = FALSE); the rejection reaches the
\* catch of the handler, which answers and undoes nothing.
CreateProductHistory(r, ok) ==
    /\ reqs[r].pc = "history"
    /\ IF ok /\ reqs[r].id \in DOMAIN inventoryItems
       THEN /\ productHistory' = Append(productHistory,
                   HistoryEntry(reqs[r].id,
                                IF reqs[r].route = "createInventory" THEN "in" ELSE "adjust",
                                reqs[r].current, reqs[r].qty, reqs[r].user.id))
            /\ reqs' = [reqs EXCEPT ![r].pc = "audit"]
       ELSE /\ productHistory' = productHistory
            /\ reqs' = [reqs EXCEPT ![r] = Respond(@, ErrorStatus(@.route))]
    /\ UNCHANGED <<impl, users, authVars, clock, auditVars, warehouses, inventoryItems,
                   tables, capturedImages, nextId, mw, reader>>

\* DELETE /api/inventory/:id: storage.deleteInventoryItem deletes the row
\* (and, by cascade, its history) if there is one.
DeleteInventoryItem(r) ==
    /\ reqs[r].pc = "mutate"
    /\ reqs[r].route = "deleteInventory"
    /\ inventoryItems' = ItemsWithout({reqs[r].id})
    /\ productHistory' = HistoryWithout({reqs[r].id})
    /\ reqs' = [reqs EXCEPT ![r].pc = "audit"]
    /\ UNCHANGED <<impl, users, authVars, clock, auditVars, warehouses, tables,
                   capturedImages, nextId, mw, reader>>

-----------------------------------------------------------------------------
(* Tables and captured images *)

\* POST /api/tables: storage.createTable inserts the row, createdBy the
\* acting user.
CreateTable(r) ==
    /\ reqs[r].pc = "mutate"
    /\ reqs[r].route = "createTable"
    /\ nextId' = nextId + 1
    /\ tables' = Put(tables, nextId + 1, [name |-> reqs[r].name, createdBy |-> reqs[r].user.id])
    /\ reqs' = [reqs EXCEPT ![r] = [@ EXCEPT !.pc = "audit", !.id = nextId + 1]]
    /\ UNCHANGED <<impl, users, authVars, clock, auditVars, warehouses, inventoryItems,
                   productHistory, capturedImages, mw, reader>>

\* DELETE /api/tables/:id: storage.deleteTable deletes the row if there is one.
DeleteTable(r) ==
    /\ reqs[r].pc = "mutate"
    /\ reqs[r].route = "deleteTable"
    /\ tables' = Remove(tables, reqs[r].id)
    /\ reqs' = [reqs EXCEPT ![r].pc = "audit"]
    /\ UNCHANGED <<impl, users, authVars, clock, auditVars, warehouses, inventoryItems,
                   productHistory, capturedImages, nextId, mw, reader>>

\* POST /api/images/upload: the vision service answers, or the call throws
\* and the catch answers 500.
Vision(r, ok) ==
    /\ reqs[r].pc = "vision"
    /\ reqs' = [reqs EXCEPT ![r] =
           IF ok THEN [@ EXCEPT !.pc = "mutate"] ELSE Respond(@, ErrorStatus(@.route))]
    /\ UNCHANGED <<impl, users, authVars, clock, auditVars, dataVars, mw, reader>>

\* POST /api/images/upload: storage.createCapturedImage inserts the row.
CreateCapturedImage(r) ==
    /\ reqs[r].pc = "mutate"
    /\ reqs[r].route = "uploadImage"
    /\ nextId' = nextId + 1
    /\ capturedImages' = Put(capturedImages, nextId + 1,
           [filename |-> reqs[r].name, uploadedBy |-> reqs[r].user.id])
    /\ reqs' = [reqs EXCEPT ![r] = [@ EXCEPT !.pc = "audit", !.id = nextId + 1]]
    /\ UNCHANGED <<impl, users, authVars, clock, auditVars, warehouses, inventoryItems,
                   productHistory, tables, mw, reader>>

-----------------------------------------------------------------------------
(* The middleware chain on its own: isAuthenticated and requireRole applied  *)
(* to every session, users table and allow-set.                             *)

NoMw == [pc |-> "off", session |-> EmptySession, allowed |-> {}, user |-> NoUserRow,
         status |-> 0, by |-> "none", ran |-> FALSE]

\* isAuthenticated is mounted first.
MwIsAuthenticated ==
    /\ mw.pc = "start"
    /\ LET auth == isAuthenticated(mw.session, users)
       IN  mw' = IF auth.status # 0
                 THEN [mw EXCEPT !.pc = "responded", !.status = auth.status,
                                 !.by = "isAuthenticated"]
                 ELSE [mw EXCEPT !.pc = "requireRole", !.user = auth.user]
    /\ UNCHANGED <<impl, users, authVars, clock, reqs, auditVars, dataVars, reader>>

MwRequireRole ==
    /\ mw.pc = "requireRole"
    /\ LET role == requireRole(mw.allowed, mw.user)
       IN  mw' = IF role # 0
                 THEN [mw EXCEPT !.pc = "responded", !.status = role, !.by = "requireRole"]
                 ELSE [mw EXCEPT !.pc = "handler"]
    /\ UNCHANGED <<impl, users, authVars, clock, reqs, auditVars, dataVars, reader>>

\* The route handler behind the chain runs.
MwHandler ==
    /\ mw.pc = "handler"
    /\ mw' = [mw EXCEPT !.pc = "responded", !.status = 200, !.by = "handler", !.ran = TRUE]
    /\ UNCHANGED <<impl, users, authVars, clock, reqs, auditVars, dataVars, reader>>

-----------------------------------------------------------------------------
(* storage.getAuditLogs(limit) *)

NoReader == [pc |-> "off", limit |-> 0, result |-> << >>]

Min(a, b) == IF a < b THEN a ELSE b
Max(a, b) == IF a > b THEN a ELSE b

\* Array.prototype.slice(start): a negative start counts from the end, and
\* -0 is 0, the start of the array.
slice(array, start) ==
    LET from == IF start < 0 THEN Max(Len(array) + start, 0) ELSE Min(start, Len(array))
    IN  SubSeq(array, from + 1, Len(array))

\* MemStorage.getAuditLogs: this.auditLogs.slice(-limit).
MemGetAuditLogs(logs, limit) == slice(logs, -limit)

\* ORDER BY timestamp: the rows by ascending timestamp (rows of equal
\* timestamp in the order of the table).
RECURSIVE orderBy(_, _)
orderBy(rows, todo) ==
    IF todo = {} THEN << >>
    ELSE LET first == CHOOSE i \in todo :
                          \A j \in todo :
                              \/ rows[i].timestamp < rows[j].timestamp
                              \/ rows[i].timestamp = rows[j].timestamp /\ i <= j
         IN  <<rows[first]>> \o orderBy(rows, todo \ {first})

\* DatabaseStorage.getAuditLogs:
\* db.select().from(auditLogs).orderBy(auditLogs.timestamp).limit(limit).
DbGetAuditLogs(logs, limit) ==
    SubSeq(orderBy(logs, DOMAIN logs), 1, Min(limit, Len(logs)))

getAuditLogs(storage, logs, limit) ==
    IF storage = "mem" THEN MemGetAuditLogs(logs, limit) ELSE DbGetAuditLogs(logs, limit)

\* A caller's storage.getAuditLogs(limit) returns.
GetAuditLogs ==
    /\ reader.pc = "call"
    /\ reader' = [reader EXCEPT !.pc = "returned",
                                !.result = getAuditLogs(impl, auditLogs, reader.limit)]
    /\ UNCHANGED <<impl, users, authVars, clock, reqs, auditVars, dataVars, mw>>

-----------------------------------------------------------------------------
(* Initial states *)

\* A users table as it may be seeded before the server starts.
SeedRow(s, role) == [NoUserRow EXCEPT !.id = s, !.role = role]

SeedUsers ==
    UNION { { [s \in S |-> SeedRow(s, roleOf[s])] : roleOf \in [S -> userRoles] }
            : S \in SUBSET Subjects }

\* The sessions a browser may hold: anonymous or logged in, with or without
\* a pending login.
SomeSessions ==
    { [userId |-> u, codeVerifier |-> randomPKCECodeVerifier(k), state |-> randomState(k)]
        : u \in Subjects \cup {NoUser}, k \in {1} }
    \cup { [EmptySession EXCEPT !.userId = u] : u \in Subjects \cup {NoUser} }

NoRequests ==
    /\ reqs = [r \in ReqIds |-> IdleReq]
    /\ auditLogs = << >>
    /\ auditErrors = 0

NoData ==
    /\ warehouses = << >>
    /\ inventoryItems = << >>
    /\ productHistory = << >>
    /\ tables = << >>
    /\ capturedImages = << >>
    /\ nextId = 0

\* The server has just started on an empty database.
Init ==
    /\ impl = "db"
    /\ users = << >>
    /\ sessions = << >>
    /\ oidcConfig = FALSE
    /\ nextSid = 0
    /\ logins = 0
    /\ loggedOut = {}
    /\ NoRequests
    /\ clock = 0
    /\ NoData
    /\ mw = NoMw
    /\ reader = NoReader

\* The server runs, on either storage, with a super_admin in the users
\* table and a login pending in each of two sessions, the first of them the
\* super_admin's.
InitUsers ==
    /\ impl \in {"db", "mem"}
    /\ users = [s \in {"u1"} |-> SeedRow(s, "super_admin")]   \* created at time 0
    /\ sessions = [sid \in {1, 2} |->
                      [userId |-> IF sid = 1 THEN "u1" ELSE NoUser,
                       codeVerifier |-> randomPKCECodeVerifier(sid),
                       state |-> randomState(sid)]]
    /\ oidcConfig = TRUE
    /\ nextSid = 2
    /\ logins = 2
    /\ loggedOut = {}
    /\ NoRequests
    /\ clock = 1
    /\ NoData
    /\ mw = NoMw
    /\ reader = NoReader

\* One request in front of the middleware chain of a route guarded by
\* isAuthenticated and requireRole, or by requireRole alone.
InitMiddleware ==
    /\ impl = "db"
    /\ users \in SeedUsers
    /\ sessions = << >>
    /\ oidcConfig = FALSE
    /\ nextSid = 0
    /\ logins = 0
    /\ loggedOut = {}
    /\ NoRequests
    /\ clock = 0
    /\ NoData
    /\ \E session \in SomeSessions, allowed \in SUBSET userRoles,
          first \in {"start", "requireRole"} :
          mw = [NoMw EXCEPT !.pc = first, !.session = session, !.allowed = allowed]
    /\ reader = NoReader

\* The server runs with two users logged in, one of any role (session 1)
\* and an admin (session 2), and one warehouse in the database.
InitRoutes ==
    /\ impl = "db"
    /\ users \in {us \in SeedUsers : DOMAIN us = {"u1", "u2"} /\ us["u2"].role = "admin"}
    /\ sessions = [sid \in {1, 2} |->
                      [EmptySession EXCEPT !.userId = IF sid = 1 THEN "u1" ELSE "u2"]]
    /\ oidcConfig = TRUE
    /\ nextSid = 2
    /\ logins = 1
    /\ loggedOut = {}
    /\ NoRequests
    /\ clock = 0
    /\ warehouses = [id \in {1} |-> [name |-> "a", updatedAt |-> 0]]
    /\ inventoryItems = << >>
    /\ productHistory = << >>
    /\ tables = << >>
    /\ capturedImages = << >>
    /\ nextId = 1
    /\ mw = NoMw
    /\ reader = NoReader

\* The server runs with two users logged in: one of any role (session 1)
\* and an admin (session 2).
InitRoles ==
    /\ impl = "db"
    /\ users \in {us \in SeedUsers : DOMAIN us = {"u1", "u2"} /\ us["u2"].role = "admin"}
    /\ sessions = [sid \in {1, 2} |->
                      [EmptySession EXCEPT !.userId = IF sid = 1 THEN "u1" ELSE "u2"]]
    /\ oidcConfig = TRUE
    /\ nextSid = 2
    /\ logins = 1
    /\ loggedOut = {}
    /\ NoRequests
    /\ clock = 0
    /\ NoData
    /\ mw = NoMw
    /\ reader = NoReader

\* The audit logs of n entries appended one after the other, each at a
\* later time than the one before, by u1.
AuditTrails(n) ==
    { [i \in 1..n |->
          [userId |-> "u1", action |-> acts[i], id |-> 1, user |-> NoUser, role |-> "none",
           timestamp |-> i]]
        : acts \in [1..n -> {"UPDATE_WAREHOUSE", "DELETE_INVENTORY"}] }

\* Either storage holds an audit log of up to MaxTrail entries and
\* getAuditLogs is called with a limit of up to MaxLimit.
InitAuditLogs ==
    /\ impl \in {"db", "mem"}
    /\ users = [s \in {"u1"} |-> SeedRow(s, "admin")]
    /\ sessions = << >>
    /\ oidcConfig = FALSE
    /\ nextSid = 0
    /\ logins = 0
    /\ loggedOut = {}
    /\ reqs = [r \in ReqIds |-> IdleReq]
    /\ \E n \in 0..MaxTrail :
          /\ auditLogs \in AuditTrails(n)
          /\ clock = n + 1
    /\ auditErrors = 0
    /\ NoData
    /\ mw = NoMw
    /\ \E limit \in 0..MaxLimit : reader = [NoReader EXCEPT !.pc = "call", !.limit = limit]

-----------------------------------------------------------------------------
(* Specifications *)

\* The state parameters a callback may present: none, or a state handed out.
IssuedStates == {0} \cup {randomState(k) : k \in 1..logins}

\* The inputs of a request other than its cookie: the route, the path
\* parameter and the body.
Input(route) ==
    [route |-> route, target |-> NoUser, role |-> "none", id |-> 0, warehouse |-> 0,
     name |-> "-", qty |-> -1]

\* PATCH /api/users/:id/role with any user id, known or not, and any role
\* name.
AnyRoleInputs ==
    { [Input("updateUserRole") EXCEPT !.target = t, !.role = ro]
        : t \in Subjects \cup {"u3"}, ro \in userRoles \cup {"owner"} }

\* The ids a path or a body may name: those of rows that can exist.
RowIds == 1..MaxRows

\* The requests on warehouses and inventory: on the warehouse of the
\* initial state (id 1) and on the row created next (id 2), with valid
\* bodies and with invalid ones.
RouteInputs ==
    { [Input("createWarehouse") EXCEPT !.name = n] : n \in {"b", ""} }
    \cup { [Input("updateWarehouse") EXCEPT !.id = 1, !.name = "c"] }
    \cup { [Input("deleteWarehouse") EXCEPT !.id = 1] }
    \cup { [Input("createInventory") EXCEPT !.warehouse = w, !.name = "i", !.qty = 1]
             : w \in {1, 2} }
    \cup { [Input("createInventory") EXCEPT !.warehouse = 1, !.name = "", !.qty = 1] }
    \cup { [Input("updateInventory") EXCEPT !.id = 2, !.qty = n] : n \in {-1, 1, 2} }
    \cup { [Input("updateInventory") EXCEPT !.id = 2, !.name = ""] }
    \cup { [Input("deleteInventory") EXCEPT !.id = 2] }

\* The requests on tables and images; an upload may come without a file.
TableInputs ==
    { [Input("createTable") EXCEPT !.name = n] : n \in {"t", ""} }
    \cup { [Input("deleteTable") EXCEPT !.id = i] : i \in RowIds }
    \cup { [Input("uploadImage") EXCEPT !.name = n] : n \in {"f", ""} }

\* The claims the identity provider holds for a subject in the login flow.
IdpInfo(s) == IF s = "u1" THEN FullInfo(s) ELSE BareInfo(s)

\* The login flow: login, callback, logout and the current-user route.
Next ==
    \/ \E r \in ReqIds, cookie \in 0..nextSid : Login(r, cookie)
    \/ \E r \in ReqIds, cookie \in 0..nextSid, state \in IssuedStates : Callback(r, cookie, state)
    \/ \E r \in ReqIds, ok \in BOOLEAN : Discovery(r, ok)
    \/ \E r \in ReqIds, accepted \in BOOLEAN : AuthorizationCodeGrant(r, accepted)
    \/ \E r \in ReqIds, ok \in BOOLEAN, s \in Subjects : FetchUserInfo(r, ok, IdpInfo(s))
    \/ \E r \in ReqIds : UpsertUserSelect(r)
    \/ \E r \in ReqIds : UpsertUserWrite(r)
    \/ \E r \in ReqIds : SaveSession(r)
    \/ \E r \in ReqIds, cookie \in 0..nextSid : Logout(r, cookie)
    \/ \E r \in ReqIds : DestroySession(r)
    \/ \E r \in ReqIds, cookie \in 0..nextSid : Request(r, cookie, Input("authUser"))
    \/ \E r \in ReqIds : Authenticate(r)
    \/ \E r \in ReqIds : Finish(r)

Spec == Init /\ [][Next]_vars

\* PATCH /api/users/:id/role naming a subject and a role below super_admin.
LowerRoleInputs ==
    { [Input("updateUserRole") EXCEPT !.target = t, !.role = ro]
        : t \in Subjects, ro \in {"admin", "manager"} }

\* The user directory: the identity provider sends browsers back with the
\* state of their session and answers for either subject, while roles are
\* assigned.
NextUsers ==
    \/ \E r \in ReqIds, cookie \in DOMAIN sessions : Callback(r, cookie, sessions[cookie].state)
    \/ \E r \in ReqIds : AuthorizationCodeGrant(r, TRUE)
    \/ \E r \in ReqIds, s \in Subjects : FetchUserInfo(r, TRUE, IdpInfo(s))
    \/ \E r \in ReqIds : UpsertUserMem(r)
    \/ \E r \in ReqIds : UpsertUserSelect(r)
    \/ \E r \in ReqIds : UpsertUserWrite(r)
    \/ \E r \in ReqIds : SaveSession(r)
    \/ \E r \in ReqIds, in \in LowerRoleInputs : Request(r, 1, in)
    \/ \E r \in ReqIds : Authenticate(r)
    \/ \E r \in ReqIds : UpdateUserRole(r)
    \/ \E r \in ReqIds, ok \in BOOLEAN : AuditLog(r, ok)
    \/ \E r \in ReqIds : Finish(r)

SpecUsers == InitUsers /\ [][NextUsers]_vars

\* Role assignment by two logged-in users.
NextRoles ==
    \/ \E r \in ReqIds, cookie \in 0..nextSid, in \in AnyRoleInputs : Request(r, cookie, in)
    \/ \E r \in ReqIds : Authenticate(r)
    \/ \E r \in ReqIds : UpdateUserRole(r)
    \/ \E r \in ReqIds, ok \in BOOLEAN : AuditLog(r, ok)
    \/ \E r \in ReqIds : Finish(r)

SpecRoles == InitRoles /\ [][NextRoles]_vars

\* The business routes, called with and without the cookie of the session.
NextRoutes ==
    \/ \E r \in ReqIds, cookie \in 0..nextSid, in \in RouteInputs : Request(r, cookie, in)
    \/ \E r \in ReqIds : Authenticate(r)
    \/ \E r \in ReqIds : CreateWarehouse(r)
    \/ \E r \in ReqIds : UpdateWarehouse(r)
    \/ \E r \in ReqIds : DeleteWarehouse(r)
    \/ \E r \in ReqIds : CreateInventoryItem(r)
    \/ \E r \in ReqIds : GetInventoryItem(r)
    \/ \E r \in ReqIds : UpdateInventoryItem(r)
    \/ \E r \in ReqIds, ok \in BOOLEAN : CreateProductHistory(r, ok)
    \/ \E r \in ReqIds : DeleteInventoryItem(r)
    \/ \E r \in ReqIds, ok \in BOOLEAN : AuditLog(r, ok)
    \/ \E r \in ReqIds : Finish(r)

SpecRoutes == InitRoutes /\ [][NextRoutes]_vars

\* The steps of request r that the server takes on its own once the request
\* is in: the middleware chain and the storage calls of the handler.  The
\* event loop runs each of them as soon as the awaited call returns, and the
\* storage calls return.
Continue(r) ==
    \/ Authenticate(r)
    \/ CreateWarehouse(r)
    \/ UpdateWarehouse(r)
    \/ DeleteWarehouse(r)
    \/ CreateInventoryItem(r)
    \/ GetInventoryItem(r)
    \/ UpdateInventoryItem(r)
    \/ \E ok \in BOOLEAN : CreateProductHistory(r, ok)
    \/ DeleteInventoryItem(r)

\* The business routes with an audit sink that may never answer: every step
\* of a request is eventually taken except the end of its audit append, on
\* which nothing is assumed.
SpecRoutesFair ==
    /\ InitRoutes
    /\ [][NextRoutes]_vars
    /\ \A r \in ReqIds : WF_vars(Continue(r))

\* The routes on tables and images, called with and without the cookie of
\* the session.
NextTables ==
    \/ \E r \in ReqIds, cookie \in 0..nextSid, in \in TableInputs : Request(r, cookie, in)
    \/ \E r \in ReqIds : Authenticate(r)
    \/ \E r \in ReqIds : CreateTable(r)
    \/ \E r \in ReqIds : DeleteTable(r)
    \/ \E r \in ReqIds, ok \in BOOLEAN : Vision(r, ok)
    \/ \E r \in ReqIds : CreateCapturedImage(r)
    \/ \E r \in ReqIds, ok \in BOOLEAN : AuditLog(r, ok)
    \/ \E r \in ReqIds : Finish(r)

SpecTables == InitRoutes /\ [][NextTables]_vars

\* Calls of getAuditLogs.
NextAuditLogs == GetAuditLogs

SpecAuditLogs == InitAuditLogs /\ [][NextAuditLogs]_vars

NextMiddleware ==
    \/ MwIsAuthenticated
    \/ MwRequireRole
    \/ MwHandler

SpecMiddleware == InitMiddleware /\ [][NextMiddleware]_vars

-----------------------------------------------------------------------------
(* Claims on the login flow *)

\* The callback q arrived on a session holding a pending login and presented
\* a state parameter other than the stored one.
StateMismatch(q) ==
    /\ q.route = "callback"
    /\ q.loaded.codeVerifier # 0
    /\ q.loaded.state # 0
    /\ q.query # q.loaded.state

\* C1: a callback whose state parameter differs from the state of the pending
\* login in its session aborts with an error response.  Every step of such a
\* request leaves the users table and the session store as they are, the
\* request never gets as far as the userinfo call, the upsert or a session
\* write, its own copy of the session stays as loaded (userId neither set
\* nor changed), and the response it ends with is the 500 of the catch.
C1_StateMismatchAborts ==
    [][\A r \in ReqIds :
          (StateMismatch(reqs'[r]) /\ reqs'[r] # reqs[r]) =>
              /\ users' = users
              /\ sessions' = sessions
              /\ reqs'[r].pc \notin {"userinfo", "upsert", "upsertWrite", "save"}
              /\ reqs'[r].session = reqs'[r].loaded
              /\ reqs'[r].pc = "done" => reqs'[r].status = 500]_vars

\* A callback with a mismatching state has been through the grant call and
\* has been answered.
C1_Witness ==
    \E r \in ReqIds :
        /\ StateMismatch(reqs[r])
        /\ reqs[r].config
        /\ reqs[r].pc = "done"
        /\ reqs[r].status = 500

\* The session q loaded holds a pending login.
HasPendingLogin(session) == session.codeVerifier # 0 /\ session.state # 0

\* The callback q has completed successfully: it has set userId and sent the
\* redirect to "/" (the session write may still be under way).
CallbackSucceeded(q) ==
    q.route = "callback" /\ q.pc \in {"save", "done"} /\ q.status = 302

\* C2: a pending-login record is single-use: no two callbacks, concurrent or
\* not, complete successfully on the same pending-login record.
C2_PendingLoginSingleUse ==
    \A r1, r2 \in ReqIds :
        (/\ r1 # r2
         /\ CallbackSucceeded(reqs[r1])
         /\ CallbackSucceeded(reqs[r2])
         /\ HasPendingLogin(reqs[r1].loaded))
            => reqs[r1].loaded.codeVerifier # reqs[r2].loaded.codeVerifier

\* C3: a callback on a session without a pending-login record is always
\* answered 400.
C3_NoPendingLoginAlways400 ==
    \A r \in ReqIds :
        (/\ reqs[r].route = "callback"
         /\ ~HasPendingLogin(reqs[r].loaded)
         /\ reqs[r].pc = "done")
            => reqs[r].status = 400

\* C4: a callback whose code exchange and claims fetch both succeeded
\* completes with a redirect to "/", and at that moment the stored session
\* has userId equal to the subject and no pending-login record, and the users
\* table has a row for the subject.
C4_SuccessfulCallbackLogsIn ==
    [][\A r \in ReqIds :
          (/\ reqs'[r].route = "callback"
           /\ reqs'[r].info.sub # NoUser
           /\ reqs[r].pc # "done"
           /\ reqs'[r].pc = "done")
              => /\ reqs'[r].status = 302
                 /\ reqs'[r].sid \in DOMAIN sessions'
                 /\ sessions'[reqs'[r].sid].userId = reqs'[r].info.sub
                 /\ ~HasPendingLogin(sessions'[reqs'[r].sid])
                 /\ reqs'[r].info.sub \in DOMAIN users']_vars

-----------------------------------------------------------------------------
(* Claims on the user directory *)

\* The request q assigns super_admin and its acting user has been resolved.
AssignsSuperAdmin(q) ==
    q.route = "updateUserRole" /\ q.role = "super_admin" /\ q.user.id # NoUser

\* C5: PATCH /api/users/:id/role with role super_admin.  If the acting
\* user's resolved role is not super_admin, no step of the request changes the
\* users table, the request never reaches its update and it is answered 403.
\* If the acting user's resolved role is super_admin and the target user
\* exists, the update sets the target's role to super_admin and the request
\* is answered 200.
C5_OnlySuperAdminAssignsSuperAdmin ==
    [][\A r \in ReqIds :
          (AssignsSuperAdmin(reqs'[r]) /\ reqs'[r] # reqs[r]) =>
              IF reqs'[r].user.role # "super_admin"
              THEN /\ users' = users
                   /\ reqs'[r].pc = "done"
                   /\ reqs'[r].status = 403
              ELSE reqs'[r].target \in DOMAIN users =>
                   /\ reqs'[r].pc \in {"mutate", "audit", "done"}
                   /\ reqs[r].pc = "mutate" =>
                         /\ reqs'[r].pc = "audit"
                         /\ users'[reqs'[r].target].role = "super_admin"
                   /\ reqs'[r].pc = "done" => reqs'[r].status = 200]_vars

\* An admin has been refused the assignment of super_admin to a user who is
\* then given the role by a super_admin.
C5_Witness ==
    \E r1, r2 \in ReqIds :
        /\ AssignsSuperAdmin(reqs[r1])
        /\ reqs[r1].user.role = "admin"
        /\ reqs[r1].target = "u2"
        /\ reqs[r1].pc = "done"
        /\ reqs[r1].status = 403
        /\ AssignsSuperAdmin(reqs[r2])
        /\ reqs[r2].user.role = "super_admin"
        /\ reqs[r2].target = "u2"
        /\ reqs[r2].pc = "done"
        /\ reqs[r2].status = 200
        /\ users["u2"].role = "super_admin"

\* The profile fields of a users row.
Profile(row) ==
    [email |-> row.email, firstName |-> row.firstName, lastName |-> row.lastName,
     profileImageUrl |-> row.profileImageUrl]

\* C6: upsertUser on a subject that has a row changes, in either storage,
\* only email, firstName, lastName, profileImageUrl and updatedAt of that
\* row: in every step of an upsert the row keeps its id, role and createdAt
\* as they are at that step (a role set by an interleaved updateUserRole
\* included), a row that is written gets the profile of the claims, and no
\* other row appears, disappears or changes.
C6_UpsertKeepsRoleAndCreatedAt ==
    [][\A r \in ReqIds :
          LET s == reqs[r].info.sub
          IN  (/\ reqs[r].pc \in {"upsert", "upsertWrite"}
               /\ reqs'[r] # reqs[r]
               /\ s \in DOMAIN users) =>
                  /\ DOMAIN users' = DOMAIN users
                  /\ \A t \in DOMAIN users \ {s} : users'[t] = users[t]
                  /\ users'[s].id = users[s].id
                  /\ users'[s].role = users[s].role
                  /\ users'[s].createdAt = users[s].createdAt
                  /\ users'[s] # users[s] =>
                        /\ Profile(users'[s]) = Profile(UpsertOf(reqs[r].info))
                        /\ users'[s].updatedAt = clock]_vars

\* A callback has upserted the user who was created at time 0 as
\* super_admin and has since been made admin: the row has the profile of the
\* claims, the later updatedAt, the assigned role and the old createdAt.
C6_Witness ==
    \E r \in ReqIds :
        /\ CallbackSucceeded(reqs[r])
        /\ reqs[r].info.sub = "u1"
        /\ Profile(users["u1"]) = Profile(UpsertOf(reqs[r].info))
        /\ users["u1"].role = "admin"
        /\ users["u1"].createdAt = 0
        /\ users["u1"].updatedAt = 1

\* C7: once a logout has completed for a session, every later GET
\* /api/auth/user bearing that session's cookie is answered 401, whatever
\* requests on the session were in flight when it was destroyed.
C7_NoUserAfterLogout ==
    \A r \in ReqIds :
        (/\ reqs[r].route = "authUser"
         /\ reqs[r].afterLogout
         /\ reqs[r].pc = "done")
            => reqs[r].status = 401

-----------------------------------------------------------------------------
(* Claims on the authorization middleware *)

\* C8: behind requireRole(allowedRoles) the handler is reached only with a
\* resolved user whose role is a member of allowedRoles; otherwise
\* requireRole answers 401 when no user is attached and 403 when the role is
\* not in the set, and the handler does not run.  Membership is exact.
C8_RequireRoleExactMembership ==
    /\ mw.pc = "handler" \/ mw.ran =>
          mw.user.id # NoUser /\ mw.user.role \in mw.allowed
    /\ mw.by = "requireRole" =>
          /\ mw.pc = "responded"
          /\ ~mw.ran
          /\ mw.status = IF mw.user.id = NoUser THEN 401 ELSE 403
          /\ mw.user.id # NoUser => mw.user.role \notin mw.allowed
    /\ mw.pc = "responded" =>
          (mw.by = "handler") = (mw.user.id # NoUser /\ mw.user.role \in mw.allowed)

\* requireRole("admin", "manager") has refused a super_admin.
C8_Witness ==
    /\ mw.pc = "responded"
    /\ mw.by = "requireRole"
    /\ mw.status = 403
    /\ mw.allowed = {"admin", "manager"}
    /\ mw.user.role = "super_admin"

\* The session of the request has a userId that names a row of users.
Resolves(session) == session.userId # NoUser /\ session.userId \in DOMAIN users

-----------------------------------------------------------------------------
(* Claims on the business routes *)

\* The request q has applied its mutation: the handler is past its storage
\* write.
Mutated(q) ==
    /\ q.route \in MutatingRoutes
    /\ \/ q.pc \in {"history", "audit"}
       \/ q.pc = "done" /\ q.status = SuccessStatus(q.route)

\* C10: a mutating business route applies its mutation only for a request
\* that passed identity resolution and then role enforcement against the
\* route's allow-set.
C10_MutationBehindBothChecks ==
    \A r \in ReqIds :
        Mutated(reqs[r]) => reqs[r].user.id # NoUser /\ reqs[r].roleChecked

\* The request q deletes a warehouse and its acting user has been resolved.
DeletesWarehouse(q) == q.route = "deleteWarehouse" /\ q.user.id # NoUser

\* C11: DELETE /api/warehouses/:id.  For an acting user whose role is
\* manager or viewer no step of the request changes the business tables and
\* the request is answered 403; for an acting user whose role is admin or
\* super_admin the delete leaves no warehouse with the id and the request is
\* answered 204.
C11_WarehouseDeleteAccess ==
    [][\A r \in ReqIds :
          (DeletesWarehouse(reqs'[r]) /\ reqs'[r] # reqs[r]) =>
              IF reqs'[r].user.role \in {"manager", "viewer"}
              THEN /\ UNCHANGED dataVars
                   /\ reqs'[r].pc = "done"
                   /\ reqs'[r].status = 403
              ELSE /\ reqs'[r].user.role \in {"admin", "super_admin"}
                   /\ reqs'[r].pc \in {"mutate", "audit", "done"}
                   /\ reqs[r].pc = "mutate" =>
                         /\ reqs'[r].pc = "audit"
                         /\ reqs'[r].id \notin DOMAIN warehouses'
                   /\ reqs'[r].pc = "done" => reqs'[r].status = 204]_vars

\* A manager has been refused the deletion of warehouse 1, which an admin
\* has then deleted.
C11_Witness ==
    \E r1, r2 \in ReqIds :
        /\ DeletesWarehouse(reqs[r1])
        /\ reqs[r1].user.role = "manager"
        /\ reqs[r1].id = 1
        /\ reqs[r1].pc = "done"
        /\ reqs[r1].status = 403
        /\ DeletesWarehouse(reqs[r2])
        /\ reqs[r2].user.role = "admin"
        /\ reqs[r2].id = 1
        /\ reqs[r2].pc = "done"
        /\ reqs[r2].status = 204
        /\ 1 \notin DOMAIN warehouses

\* C12: when the audit append of a mutating request throws after the
\* mutation succeeded, the response is the one sent when the append succeeds
\* (POST /api/inventory is still answered 201), the mutation stays applied,
\* and the append is attempted once, never again.
C12_AuditFailureIsSwallowed ==
    [][\A r \in ReqIds :
          (reqs[r].pc = "audit" /\ reqs'[r] # reqs[r]) =>
              /\ reqs'[r] = [reqs[r] EXCEPT !.pc = "done",
                                            !.status = SuccessStatus(reqs[r].route)]
              /\ reqs[r].route = "createInventory" => reqs'[r].status = 201
              /\ UNCHANGED <<users, dataVars>>
              /\ Len(auditLogs') + auditErrors' = Len(auditLogs) + auditErrors + 1]_vars

C12_Witness ==
    \E r \in ReqIds :
        /\ reqs[r].route = "createInventory"
        /\ reqs[r].pc = "done"
        /\ reqs[r].status = 201
        /\ reqs[r].id \in DOMAIN inventoryItems
        /\ auditErrors = 1
        /\ auditLogs = << >>

\* The audit entries of the action whose metadata names the row.
EntriesFor(action, id) ==
    {i \in DOMAIN auditLogs : auditLogs[i].action = action /\ auditLogs[i].id = id}

\* C13: a POST /api/inventory that is answered 201 while the audit sink
\* works appends exactly one audit entry, with action CREATE_INVENTORY and
\* the id of the item this request inserted as metadata.itemId; no other
\* step of the request appends, and 201 is only sent after that append.
C13_CreateInventoryAuditedOnce ==
    [][\A r \in ReqIds :
          (reqs[r].route = "createInventory" /\ reqs'[r] # reqs[r]) =>
              /\ reqs'[r].pc = "history" =>
                    /\ reqs'[r].id \in DOMAIN inventoryItems' \ DOMAIN inventoryItems
                    /\ EntriesFor("CREATE_INVENTORY", reqs'[r].id) = {}
              /\ reqs[r].pc \in {"history", "audit"} => reqs'[r].id = reqs[r].id
              /\ reqs'[r].status = 201 => reqs[r].pc = "audit"
              /\ reqs[r].pc # "audit" => UNCHANGED auditVars
              /\ (reqs[r].pc = "audit" /\ auditErrors' = auditErrors) =>
                    /\ reqs'[r].status = 201
                    /\ Len(auditLogs') = Len(auditLogs) + 1
                    /\ SubSeq(auditLogs', 1, Len(auditLogs)) = auditLogs
                    /\ auditLogs'[Len(auditLogs')].action = "CREATE_INVENTORY"
                    /\ auditLogs'[Len(auditLogs')].id = reqs[r].id
                    /\ auditLogs'[Len(auditLogs')].userId = reqs[r].user.id]_vars

C13_Witness ==
    \E r \in ReqIds :
        /\ reqs[r].route = "createInventory"
        /\ reqs[r].pc = "done"
        /\ reqs[r].status = 201
        /\ auditErrors = 0
        /\ Cardinality(EntriesFor("CREATE_INVENTORY", reqs[r].id)) = 1
        /\ \A i \in DOMAIN auditLogs :
              auditLogs[i].action = "CREATE_INVENTORY" => auditLogs[i].id = reqs[r].id

\* The statuses of the responses that reject a request.
RejectStatuses == {400, 401, 403, 404, 500}

\* The request passed the middleware of its route and its body is valid.
Admitted(q) ==
    /\ q.user.id # NoUser
    /\ hasRequireRole(q.route) => q.user.role \in allowedRoles(q.route)
    /\ q.route \in {"createWarehouse", "createInventory", "createTable"} => q.name \notin {"", "-"}
    /\ q.route \in {"updateWarehouse", "updateInventory", "uploadImage"} => q.name # ""
    /\ q.route = "updateUserRole" => PatchUserRoleGuard(q.role, q.user) = 0

\* The step completes the last storage call of request r's mutation without
\* a throw.
MutationSucceeds(r) ==
    LET q == reqs[r]
        id == reqs'[r].id
    IN  CASE q.route = "updateUserRole" ->
                q.target \in DOMAIN users /\ users'[q.target].role = q.role
          [] q.route = "createWarehouse" -> id \in DOMAIN warehouses' \ DOMAIN warehouses
          [] q.route = "updateWarehouse" -> id \in DOMAIN warehouses /\ id \in DOMAIN warehouses'
          [] q.route = "deleteWarehouse" -> id \notin DOMAIN warehouses'
          [] q.route = "createInventory" ->
                /\ q.pc = "history"
                /\ id \in DOMAIN inventoryItems
                /\ Len(productHistory') = Len(productHistory) + 1
          [] q.route = "updateInventory" ->
                /\ id \in DOMAIN inventoryItems
                /\ q.pc = "history" => Len(productHistory') = Len(productHistory) + 1
          [] q.route = "deleteInventory" -> id \notin DOMAIN inventoryItems'
          [] q.route = "createTable" -> id \in DOMAIN tables' \ DOMAIN tables
          [] q.route = "deleteTable" -> id \notin DOMAIN tables'
          [] q.route = "uploadImage" -> id \in DOMAIN capturedImages' \ DOMAIN capturedImages
          [] OTHER -> FALSE

\* C14: a mutating route calls the audit recorder only after its own
\* mutation succeeded: the audit log is touched only by a request that is
\* past its mutation, a request gets there only by a storage call that did
\* not throw, after passing the middleware with a valid body, and a request
\* answered with a rejection (401, 403, failed validation, a throw of the
\* storage call) never was there.
C14_AuditOnlyAfterMutation ==
    [][/\ auditVars' # auditVars =>
             \E r \in ReqIds : reqs[r].pc = "audit" /\ reqs'[r].pc = "done"
       /\ \A r \in ReqIds :
             /\ (reqs'[r].pc = "audit" /\ reqs[r].pc # "audit") =>
                   /\ reqs[r].pc \in {"mutate", "history"}
                   /\ Admitted(reqs[r])
                   /\ MutationSucceeds(r)
             /\ (reqs'[r] # reqs[r] /\ reqs'[r].status \in RejectStatuses) =>
                   /\ reqs[r].pc # "audit"
                   /\ UNCHANGED auditVars]_vars

C14_Witness ==
    \E r \in ReqIds :
        /\ reqs[r].route = "updateWarehouse"
        /\ reqs[r].pc = "done"
        /\ reqs[r].status = 400
        /\ Admitted(reqs[r])
        /\ auditErrors = 0
        /\ \A i \in DOMAIN auditLogs : auditLogs[i].action # "UPDATE_WAREHOUSE"

\* C15: the response of a mutating request does not wait on the audit sink:
\* once the mutation of a request has succeeded, its success response is
\* eventually sent, also when the audit append never completes.
C15_ResponseDoesNotWaitOnAudit ==
    \A r \in ReqIds :
        (reqs[r].pc = "audit") ~>
            (reqs[r].pc = "done" /\ reqs[r].status = SuccessStatus(reqs[r].route))

-----------------------------------------------------------------------------
(* Claims on discovery and on the pending login *)

\* The requests whose getOIDCConfig is waiting for its client.discovery call.
DiscoveryFetches == {r \in ReqIds : reqs[r].pc = "discovery"}

\* C16: OIDC discovery is single-flight: however many login and callback
\* requests arrive before the first discovery has completed, at most one
\* discovery fetch is in flight.
C16_DiscoverySingleFlight == Cardinality(DiscoveryFetches) <= 1

\* The verifier/state pair of a session record, and the pairs held by the
\* session store and by the session copies of the requests.
PairOf(session) == <<session.codeVerifier, session.state>>

StoredPairs ==
    ({PairOf(sessions[sid]) : sid \in DOMAIN sessions}
       \cup {PairOf(reqs[r].session) : r \in ReqIds}
       \cup {PairOf(reqs[r].loaded) : r \in ReqIds}) \ {<<0, 0>>}

\* The pairs the process has drawn from its generators so far.
DrawnPairs == {<<randomPKCECodeVerifier(k), randomState(k)>> : k \in 1..logins}

\* C17: a login that succeeds stores in its session a newly generated
\* codeVerifier/state pair: neither value occurs in a pair drawn before, and
\* every pair held by any session was drawn before, so the new pair equals
\* none previously stored; a pending record the session had is replaced.  The
\* redirect carries that state and the challenge of that verifier, and the
\* session written to the store holds that pair.
C17_LoginStoresFreshPair ==
    [][\A r \in ReqIds :
          /\ (reqs'[r].route = "login" /\ reqs'[r].status = 302 /\ reqs[r].status # 302) =>
                LET new == reqs'[r].session
                IN  /\ new.codeVerifier # 0
                    /\ new.state # 0
                    /\ StoredPairs \subseteq DrawnPairs
                    /\ \A p \in DrawnPairs \cup StoredPairs :
                          p[1] # new.codeVerifier /\ p[2] # new.state
                    /\ new.userId = reqs'[r].loaded.userId
                    /\ reqs'[r].redirect.state = new.state
                    /\ reqs'[r].redirect.code_challenge =
                          calculatePKCECodeChallenge(new.codeVerifier)
                    /\ reqs'[r].pc = "save"
          /\ (reqs[r].route = "login" /\ reqs[r].pc = "save" /\ reqs'[r] # reqs[r]) =>
                /\ reqs'[r] = [reqs[r] EXCEPT !.pc = "done"]
                /\ reqs[r].sid \in DOMAIN sessions'
                /\ sessions'[reqs[r].sid] = reqs[r].session
                /\ reqs[r].redirect.state = reqs[r].session.state
                /\ reqs[r].redirect.code_challenge =
                      calculatePKCECodeChallenge(reqs[r].session.codeVerifier)]_vars

C17_Witness ==
    \E r \in ReqIds :
        /\ reqs[r].route = "login"
        /\ reqs[r].pc = "done"
        /\ reqs[r].status = 302
        /\ reqs[r].loaded.codeVerifier # 0
        /\ reqs[r].sid \in DOMAIN sessions
        /\ PairOf(sessions[reqs[r].sid]) = PairOf(reqs[r].session)
        /\ PairOf(reqs[r].session) # PairOf(reqs[r].loaded)
        /\ reqs[r].redirect.state = sessions[reqs[r].sid].state

-----------------------------------------------------------------------------
(* Claims on the audit log and on role assignment *)

\* The min(limit, n) entries appended last, the newest first.
MostRecentFirst(logs, limit) ==
    [i \in 1..Min(limit, Len(logs)) |-> logs[Len(logs) - i + 1]]

\* C18: getAuditLogs(limit) returns the min(limit, n) most recently appended
\* entries, newest first, on either storage and for every limit >= 0.
C18_GetAuditLogsNewestFirst ==
    reader.pc = "returned" => reader.result = MostRecentFirst(auditLogs, reader.limit)

\* C19: a role assignment naming a user id that has no record fails with
\* 404 (NotFound), creates no user and appends no audit entry; a request
\* carrying an unrecognized role is rejected and changes no role.
C19_RoleAssignmentRejections ==
    [][\A r \in ReqIds :
          (reqs[r].route = "updateUserRole" /\ reqs'[r] # reqs[r]) =>
              /\ (Admitted(reqs[r]) /\ reqs[r].pc = "mutate"
                    /\ reqs[r].target \notin DOMAIN users) =>
                    /\ reqs'[r].pc = "done"
                    /\ reqs'[r].status = 404
                    /\ UNCHANGED <<users, auditVars>>
              /\ (reqs[r].role \notin userRoles /\ reqs[r].pc # "done") =>
                    /\ reqs'[r].pc = "done"
                    /\ reqs'[r].status \in RejectStatuses
                    /\ UNCHANGED <<users, auditVars>>]_vars

\* C20: the user record upsertUser creates for a subject that had none has
\* role viewer, whatever claims the identity provider supplied: the row is
\* created by a callback's upsert for that subject, carries the profile of
\* its userinfo response, and its role is viewer on either storage.
C20_NewUserIsViewer ==
    [][\A s \in Subjects \ DOMAIN users :
          s \in DOMAIN users' =>
              /\ users'[s].role = "viewer"
              /\ users'[s].id = s
              /\ users'[s].createdAt = clock
              /\ \E r \in ReqIds :
                    /\ reqs[r].pc \in {"upsert", "upsertWrite"}
                    /\ reqs[r].info.sub = s
                    /\ Profile(users'[s]) = Profile(UpsertOf(reqs[r].info))
                    /\ reqs'[r].session.userId = s]_vars

C20_Witness ==
    /\ impl = "mem"
    /\ "u2" \in DOMAIN users
    /\ users["u2"].role = "viewer"
    /\ users["u2"].createdAt = 1
    /\ \E r \in ReqIds :
          /\ reqs[r].route = "callback"
          /\ reqs[r].pc = "done"
          /\ reqs[r].status = 302
          /\ reqs[r].info.sub = "u2"

-----------------------------------------------------------------------------
(* Claims on sessions under concurrency *)

\* The pending-login record of the session is whole: verifier and state are
\* both absent, or both present and drawn by the same login.
WholePending(session) ==
    \/ PairOf(session) = <<0, 0>>
    \/ \E k \in 1..logins :
          PairOf(session) = <<randomPKCECodeVerifier(k), randomState(k)>>

\* C21: session mutations of concurrent requests on one session id are
\* serialized.  No request reads a partially written pending-login record;
\* and when a login and a callback on the same session have both succeeded,
\* the stored session is the result of their mutations in one order or the
\* other: it names the user the callback logged in (the login does not
\* touch userId), and its pending record is the login's or none.
C21_SessionMutationsSerialized ==
    /\ \A r \in ReqIds : WholePending(reqs[r].loaded)
    /\ \A l, c \in ReqIds :
          (/\ reqs[l].route = "login" /\ reqs[l].pc = "done" /\ reqs[l].status = 302
           /\ reqs[c].route = "callback" /\ reqs[c].pc = "done" /\ reqs[c].status = 302
           /\ reqs[l].sid = reqs[c].sid
           /\ reqs[l].sid \in DOMAIN sessions) =>
              /\ sessions[reqs[l].sid].userId = reqs[c].info.sub
              /\ PairOf(sessions[reqs[l].sid]) \in {<<0, 0>>, PairOf(reqs[l].session)}

\* The login l has sent its redirect and the store holds, under its session
\* id, the pending-login record it wrote.
LoginDelivered(l) ==
    /\ reqs[l].route = "login"
    /\ reqs[l].pc = "done"
    /\ reqs[l].status = 302
    /\ reqs[l].sid \in DOMAIN sessions
    /\ PairOf(sessions[reqs[l].sid]) = PairOf(reqs[l].session)

\* C22: read-your-writes per session.  A login's pending-login record is in
\* the store when its redirect is delivered, a callback that starts reads
\* the stored session, and between the two the record is only replaced by
\* another login's or consumed by a callback that itself observed it (or
\* the session is destroyed by a logout); so a callback that starts after
\* the redirect of the login on its session observes the record that login
\* wrote.
C22_CallbackReadsLoginRecord ==
    [][/\ \A l \in ReqIds :
             (reqs[l].route = "login" /\ reqs[l].status = 302 /\ reqs[l].pc # "done"
                /\ reqs'[l].pc = "done") =>
                   /\ reqs[l].sid \in DOMAIN sessions'
                   /\ PairOf(sessions'[reqs[l].sid]) = PairOf(reqs[l].session)
       /\ \A c \in ReqIds :
             (reqs[c].pc = "idle" /\ reqs'[c].route = "callback"
                /\ reqs'[c].sid \in DOMAIN sessions) =>
                   reqs'[c].loaded = sessions[reqs'[c].sid]
       /\ \A l \in ReqIds :
             (/\ LoginDelivered(l)
              /\ reqs[l].sid \in DOMAIN sessions'
              /\ PairOf(sessions'[reqs[l].sid]) # PairOf(sessions[reqs[l].sid])) =>
                   \E w \in ReqIds :
                       /\ reqs'[w] # reqs[w]
                       /\ reqs[w].sid = reqs[l].sid
                       /\ \/ reqs[w].route = "login"
                          \/ PairOf(reqs[w].loaded) = PairOf(reqs[l].session)]_vars

-----------------------------------------------------------------------------
(* Claims on the audit log and on the directory *)

\* C23: the audit log is append-only: no operation modifies or removes an
\* entry, so the log after any step has the log before it as a prefix, in
\* append order.
C23_AuditLogAppendOnly ==
    [][/\ Len(auditLogs') >= Len(auditLogs)
       /\ SubSeq(auditLogs', 1, Len(auditLogs)) = auditLogs]_vars

C23_Witness ==
    /\ Len(auditLogs) = 2
    /\ auditLogs[1].action = "CREATE_INVENTORY"
    /\ auditLogs[2].action = "DELETE_INVENTORY"
    /\ auditLogs[2].id = auditLogs[1].id
    /\ auditLogs[1].id \notin DOMAIN inventoryItems
    /\ productHistory = << >>

\* C24: a login whose discovery fails is answered 500 and stores no
\* pending-login record: its session stays as loaded and is not written.
\* The failure is not cached: the cached configuration is left as it was, a
\* login that arrives while none is cached performs discovery, and when
\* that discovery succeeds the login succeeds.
C24_DiscoveryFailureNotCached ==
    [][\A r \in ReqIds :
          /\ (reqs[r].route = "login" /\ reqs[r].pc = "discovery" /\ reqs'[r] # reqs[r]) =>
                \/ /\ reqs'[r].status = 500
                   /\ reqs'[r].pc = "done"
                   /\ reqs'[r].session = reqs[r].loaded
                   /\ UNCHANGED <<sessions, oidcConfig, logins>>
                \/ /\ reqs'[r].status = 302
                   /\ oidcConfig'
                   /\ reqs'[r].session.codeVerifier # 0
                   /\ reqs'[r].session.state # 0
                   /\ reqs'[r].pc = "save"
          /\ (reqs[r].pc = "idle" /\ reqs'[r].route = "login") =>
                IF oidcConfig THEN reqs'[r].status = 302
                ELSE reqs'[r].pc = "discovery" /\ reqs'[r].status = 0]_vars

C24_Witness ==
    \E a, b \in ReqIds :
        /\ reqs[a].route = "login" /\ reqs[a].pc = "done" /\ reqs[a].status = 500
        /\ reqs[a].sid \notin DOMAIN sessions
        /\ reqs[b].route = "login" /\ reqs[b].pc = "done" /\ reqs[b].status = 302
        /\ reqs[a].sid < reqs[b].sid
        /\ reqs[b].sid \in DOMAIN sessions
        /\ sessions[reqs[b].sid].state = randomState(1)
        /\ oidcConfig

\* The users holding role super_admin.
SuperAdmins == {s \in DOMAIN users : users[s].role = "super_admin"}

\* Nobody holds super_admin and no request in flight has resolved its
\* acting user as one.
NoSuperAdmin ==
    /\ SuperAdmins = {}
    /\ \A r \in ReqIds : reqs[r].user.role # "super_admin"

\* C25: a user who holds super_admin held it in the initial state or was
\* assigned it by a role-assignment request whose acting user had role
\* super_admin when the request's identity was resolved: every step that
\* adds a super_admin is the update of such a request.  In particular a
\* directory without a super_admin never gets one.
C25_SuperAdminProvenance ==
    [][/\ \A s \in SuperAdmins' \ SuperAdmins :
             \E r \in ReqIds :
                 /\ reqs[r].route = "updateUserRole"
                 /\ reqs[r].pc = "mutate"
                 /\ reqs'[r].pc = "audit"
                 /\ reqs[r].target = s
                 /\ reqs[r].role = "super_admin"
                 /\ reqs[r].user.role = "super_admin"
       /\ NoSuperAdmin => NoSuperAdmin']_vars

\* A super_admin made by a request of u1, who was super_admin when the
\* request resolved its identity and has been demoted since.
C25_Witness ==
    \E r \in ReqIds :
        /\ reqs[r].route = "updateUserRole"
        /\ reqs[r].pc = "done"
        /\ reqs[r].status = 200
        /\ reqs[r].user.id = "u1"
        /\ reqs[r].user.role = "super_admin"
        /\ reqs[r].target = "u2"
        /\ reqs[r].role = "super_admin"
        /\ SuperAdmins = {"u2"}

\* The callback q reached upsertUser for a subject that had no record when
\* its upsert looked.
FirstTimeUpsert(q) ==
    /\ q.route = "callback"
    /\ q.info.sub # NoUser
    /\ q.pc \in {"save", "done"}
    /\ ~q.existing

\* C26: upsert is idempotent by subject under interleaving: concurrent
\* first-time callbacks for one previously unknown subject all complete
\* successfully, and the subject has its (one) user record.
C26_ConcurrentFirstUpsert ==
    \A r \in ReqIds :
        FirstTimeUpsert(reqs[r]) =>
            /\ reqs[r].status = 302
            /\ reqs[r].session.userId = reqs[r].info.sub
            /\ reqs[r].info.sub \in DOMAIN users

\* C27: a callback that fails in the token exchange or in the claims fetch
\* is answered 500 and leaves the session unchanged: its copy of the session
\* is as loaded (userId and the pending-login record included), nothing is
\* written to the session store, and no user record is written.
C27_FailedCallbackKeepsSession ==
    [][\A r \in ReqIds :
          (reqs[r].route = "callback" /\ reqs[r].pc \in {"grant", "userinfo"}
             /\ reqs'[r] # reqs[r]) =>
                /\ UNCHANGED <<users, sessions>>
                /\ reqs'[r].session = reqs[r].loaded
                /\ reqs'[r].loaded = reqs[r].loaded
                /\ reqs'[r].pc \in {"userinfo", "upsert", "done"}
                /\ reqs'[r].pc = "done" => reqs'[r].status = 500
                /\ reqs'[r].pc # "done" => reqs'[r].status = 0]_vars

\* A callback presenting the state of its session's pending login has failed
\* at the identity provider; the stored session still holds the record.
C27_Witness ==
    \E r \in ReqIds :
        /\ reqs[r].route = "callback"
        /\ reqs[r].pc = "done"
        /\ reqs[r].status = 500
        /\ reqs[r].info.sub = NoUser
        /\ reqs[r].query = reqs[r].loaded.state
        /\ reqs[r].query # 0
        /\ reqs[r].sid \in DOMAIN sessions
        /\ sessions[reqs[r].sid] = reqs[r].loaded
        /\ users = << >>

\* C28: authorization uses the role currently stored in the user directory,
\* never a copy held in the session.  The step that resolves the identity
\* of a request reads the row of the session's user as it is now and decides
\* on that row's role: 403 if the route does not admit it (or, for the
\* assignment of super_admin, if it is not super_admin), the handler
\* otherwise.  So once a role change has completed, every request of that
\* user resolved afterwards is authorized against the new role.
C28_AuthorizationUsesCurrentRole ==
    [][\A r \in ReqIds :
          (reqs[r].pc = "authenticate" /\ reqs'[r] # reqs[r]
             /\ reqs[r].session.userId \in DOMAIN users) =>
                LET row == users[reqs[r].session.userId]
                    q == reqs[r]
                IN  /\ reqs'[r].user = row
                    /\ reqs'[r].status = 403 <=>
                          \/ hasRequireRole(q.route) /\ row.role \notin allowedRoles(q.route)
                          \/ /\ q.route = "updateUserRole"
                             /\ q.role = "super_admin"
                             /\ row.role # "super_admin"
                    /\ reqs'[r].status # 401]_vars

\* u2, an admin in the initial state, has been made a viewer by a completed
\* request of u1, and a request of u2 has then been refused as a viewer.
C28_Witness ==
    \E r1, r2 \in ReqIds :
        /\ reqs[r1].route = "updateUserRole"
        /\ reqs[r1].user.id = "u1"
        /\ reqs[r1].target = "u2"
        /\ reqs[r1].role = "viewer"
        /\ reqs[r1].pc = "done"
        /\ reqs[r1].status = 200
        /\ reqs[r2].route = "updateUserRole"
        /\ reqs[r2].session.userId = "u2"
        /\ reqs[r2].user.role = "viewer"
        /\ reqs[r2].pc = "done"
        /\ reqs[r2].status = 403

-----------------------------------------------------------------------------
(* Claims on inventory and its history *)

\* The product-history entries of the item, in insertion order.
HistoryOf(item) == SelectSeq(productHistory, LAMBDA h : h.inventoryItemId = item)

\* No POST or PATCH /api/inventory request is under way.
InventoryQuiet ==
    \A r \in ReqIds :
        reqs[r].route \in {"createInventory", "updateInventory"} => reqs[r].pc = "done"

\* C29: after any interleaving of POST and PATCH /api/inventory requests the
\* product-history entries of each item form a chain: the first entry has
\* previousQuantity 0, each later entry's previousQuantity is the preceding
\* entry's newQuantity, every entry's quantityChange is newQuantity minus
\* previousQuantity, and the last entry's newQuantity is the item's
\* quantity.
C29_HistoryIsChain ==
    InventoryQuiet =>
        \A item \in DOMAIN inventoryItems :
            LET h == HistoryOf(item)
            IN  /\ Len(h) >= 1
                /\ h[1].previousQuantity = 0
                /\ \A i \in 2..Len(h) : h[i].previousQuantity = h[i - 1].newQuantity
                /\ \A i \in 1..Len(h) :
                      h[i].quantityChange = h[i].newQuantity - h[i].previousQuantity
                /\ h[Len(h)].newQuantity = inventoryItems[item].quantity

\* C30: POST /api/inventory is all-or-nothing: once the request is answered
\* with an error status, neither the inventory item it inserted nor a
\* product-history entry of that item is in storage.
C30_CreateInventoryAllOrNothing ==
    \A r \in ReqIds :
        (/\ reqs[r].route = "createInventory"
         /\ reqs[r].pc = "done"
         /\ reqs[r].status \in RejectStatuses) =>
            /\ reqs[r].id \notin DOMAIN inventoryItems
            /\ HistoryOf(reqs[r].id) = << >>

====
